---- MODULE Spec2Model ----
(***************************************************************************)
(* Event Checker API (src/api/server.js): the RSVP ledger, the deadline    *)
(* gate and the summary aggregation, as a state machine over the two       *)
(* tables `events` and `rsvps` and the request handlers that run           *)
(* concurrently against them.  Every `await pool.query(...)` is one store  *)
(* step; the handler code up to the next query belongs to the same step.   *)
(*                                                                         *)
(* Values of a JSON body field are records: [t |-> "absent"] (undefined,   *)
(* null), [t |-> "str", s |-> <<chars>>] (a string, one element per code   *)
(* unit), [t |-> "num", n |-> i] (a number) and [t |-> "other"] (a truthy  *)
(* value of another type).  Instants are milliseconds since the model's    *)
(* epoch (00:00 UTC of day 0).                                             *)
(***************************************************************************)
EXTENDS Integers, Sequences, FiniteSets, TLC

\* ------------------------------------------------------------------ bounds
\* events created and rows inserted in a run of the sequential system
MaxEvents == 2
MaxRsvps == 2
\* the same for the concurrent system
RaceEvents == 1
RaceRsvps == 2
\* rows of the table a summary is computed over
MaxSumRows == 3
\* characters of a guest's name and of a guest's phone
MaxNameLen == 3
MaxPhoneLen == 2

\* ------------------------------------------------------------- JSON values
Absent == [t |-> "absent"]
Other == [t |-> "other"]
Str(s) == [t |-> "str", s |-> s]
Num(n) == [t |-> "num", n |-> n]
Bool(b) == [t |-> "bool", b |-> b]

\* JavaScript truthiness of a body field (!x is its negation)
Truthy(v) ==
  CASE v.t = "absent" -> FALSE
    [] v.t = "str" -> v.s # <<>>
    [] v.t = "num" -> v.n # 0
    [] v.t = "bool" -> v.b
    [] OTHER -> TRUE

\* ------------------------------------------------------------ char helpers
\* "a_acute" and "A_acute" are the precomposed letters U+00E1 and U+00C1,
\* "u0301" is the combining acute accent.
IsSpace(c) == c \in {" ", "\t"}
IsCombining(c) == c \in {"u0301"}
IsDigit(c) == c \in {"0", "1", "2"}

NFDChar(c) ==
  CASE c = "a_acute" -> <<"a", "u0301">>
    [] c = "A_acute" -> <<"A", "u0301">>
    [] OTHER -> <<c>>

RECURSIVE NFD(_)
NFD(s) == IF s = <<>> THEN <<>> ELSE NFDChar(Head(s)) \o NFD(Tail(s))

RECURSIVE StripCombining(_)
StripCombining(s) ==
  IF s = <<>> THEN <<>>
  ELSE IF IsCombining(Head(s)) THEN StripCombining(Tail(s))
  ELSE <<Head(s)>> \o StripCombining(Tail(s))

RECURSIVE TrimStart(_)
TrimStart(s) ==
  IF s = <<>> THEN <<>>
  ELSE IF IsSpace(Head(s)) THEN TrimStart(Tail(s)) ELSE s

RECURSIVE TrimEnd(_)
TrimEnd(s) ==
  IF s = <<>> THEN <<>>
  ELSE IF IsSpace(s[Len(s)]) THEN TrimEnd(SubSeq(s, 1, Len(s) - 1)) ELSE s

Trim(s) == TrimEnd(TrimStart(s))

LowerChar(c) ==
  CASE c = "A" -> "a"
    [] c = "B" -> "b"
    [] c = "A_acute" -> "a_acute"
    [] OTHER -> c

ToLowerCase(s) == [i \in 1..Len(s) |-> LowerChar(s[i])]

\* a normalizer without its replace(/\s+/g, ' ')
CollapseSpaces_Skipped(s) == s

\* replace(/\s+/g, ' '): every maximal run of whitespace becomes one space
RECURSIVE CollapseSpaces(_)
CollapseSpaces(s) ==
  IF s = <<>> THEN <<>>
  ELSE IF IsSpace(Head(s))
       THEN <<" ">> \o CollapseSpaces(TrimStart(Tail(s)))
       ELSE <<Head(s)>> \o CollapseSpaces(Tail(s))

\* normalizeName(name): (name || '') must be a string, or .normalize throws
normalizeName(name) ==
  CollapseSpaces(ToLowerCase(Trim(StripCombining(NFD(
    IF Truthy(name) THEN name.s ELSE <<>>)))))

RECURSIVE KeepDigits(_)
KeepDigits(s) ==
  IF s = <<>> THEN <<>>
  ELSE IF IsDigit(Head(s)) THEN <<Head(s)>> \o KeepDigits(Tail(s))
  ELSE KeepDigits(Tail(s))

onlyDigits(s) == KeepDigits(IF Truthy(s) THEN s.s ELSE <<>>)

\* a truthy value that is no string has no .normalize / .replace / .trim:
\* the call throws a TypeError, which the handler's catch turns into 500
ThrowsTypeError(v) == Truthy(v) /\ v.t # "str"

\* ------------------------------------------------------------------- time
MinMs == 60 * 1000
DayMs == 24 * 60 * 60 * 1000
\* the fixed offset '-03:00' of toISOWithTZ and isoFromDate, in minutes
TzOffsetMin == 0 - 180

\* A well-formed "YYYY-MM-DD" is [t |-> "ymd", d |-> day number], a well-formed
\* "HH:mm" is [t |-> "hm", m |-> minute of the day]; any other string fails
\* the regular expressions of toISOWithTZ.
Ymd(d) == [t |-> "ymd", d |-> d]
Hm(m) == [t |-> "hm", m |-> m]
\* the text "<date>T<time>:00<offset>", kept as its three parts
Iso(d, m, off) == [t |-> "iso", d |-> d, m |-> m, off |-> off]
Null == [t |-> "null"]

toISOWithTZ(dateStr, timeStr) ==
  IF ~Truthy(dateStr) \/ ~Truthy(timeStr) THEN Null
  ELSE IF ~(dateStr.t = "ymd" /\ timeStr.t = "hm") THEN Null
  ELSE Iso(dateStr.d, timeStr.m, TzOffsetMin)

\* new Date(iso).getTime() for a well-formed timestamp text
DateParse(iso) == iso.d * DayMs + iso.m * MinMs - iso.off * MinMs

\* isoFromDate(d): the wall-clock fields of instant d in the server's local
\* zone (getFullYear .. getMinutes), labelled -03:00
isoFromDate(d, tzMin) ==
  LET local == d + tzMin * MinMs
  IN  Iso(local \div DayMs, (local % DayMs) \div MinMs, TzOffsetMin)

\* ------------------------------------------------------------------ state
VARIABLES
  now,         \* the wall clock, new Date()
  events,      \* table events: a sequence, row i has the serial id i
  rsvps,       \* table rsvps: a set of rows, each with its serial id
  nextRsvpId,  \* the next value of the rsvps id sequence
  pc,          \* per handler instance: the query it awaits
  req,         \* per handler instance: params and body of its request
  loc,         \* per handler instance: its local constants
  res,         \* per handler instance: the response it sent
  pre          \* per handler instance: the rows of the table it writes
               \* (rsvps, or events for POST /api/events) when its request
               \* arrived

vars == <<now, events, rsvps, nextRsvpId, pc, req, loc, res, pre>>

\* handler instances: two POST /api/rsvp/:event_id, two GET .../summary, one
\* POST /api/events
Submitters == {1, 2}
Summarizers == {3, 4}
Creators == {5}
Handlers == Submitters \cup Summarizers \cup Creators

None == [t |-> "none"]

Init ==
  /\ now = 0
  /\ events = <<>>
  /\ rsvps = {}
  /\ nextRsvpId = 1
  /\ pc = [h \in Handlers |-> "idle"]
  /\ req = [h \in Handlers |-> None]
  /\ loc = [h \in Handlers |-> None]
  /\ res = [h \in Handlers |-> None]
  /\ pre = [h \in Handlers |-> {}]

\* ------------------------------------------------------------------ clock
\* time passes: new Date() never goes back
Tick(t) ==
  /\ t > now
  /\ now' = t
  /\ UNCHANGED <<events, rsvps, nextRsvpId, pc, req, loc, res, pre>>

\* --------------------------------------------------- POST /api/events
\* what rsvp_deadline the handler hands to the INSERT
finalDeadlineISO(body, tzMin) ==
  LET eventISO == toISOWithTZ(body.date, body.time)
      first ==
        IF Truthy(body.rsvp_deadline_date) /\ Truthy(body.rsvp_deadline_time)
        THEN toISOWithTZ(body.rsvp_deadline_date, body.rsvp_deadline_time)
        ELSE IF Truthy(body.rsvp_deadline) THEN body.rsvp_deadline
        ELSE Null
  IN  IF first # Null THEN first
      ELSE isoFromDate(DateParse(eventISO) - DayMs, tzMin)

\* the events.rsvp_deadline column holds an absolute timestamp: the store
\* takes a timestamp text and refuses anything else
StoreTakesTimestamp(v) == v.t = "iso"

CreateEventRejects(body) ==
  \/ ~Truthy(body.title) \/ ~Truthy(body.host_name) \/ ~Truthy(body.date)
  \/ ~Truthy(body.time) \/ ~Truthy(body.location)
  \/ toISOWithTZ(body.date, body.time) = Null

\* tzMin: the local UTC offset, in minutes, of the server process that runs
\* the handler
CreateEvent(body, tzMin) ==
  /\ ~CreateEventRejects(body)
  /\ LET dl == finalDeadlineISO(body, tzMin)
     IN  /\ StoreTakesTimestamp(dl)
         /\ events' = Append(events,
              [id |-> Len(events) + 1,
               date |-> body.date,
               time |-> body.time,
               rsvp_deadline |-> DateParse(dl),
               include_maybe_in_counts |->
                 Truthy(body.include_maybe_in_counts)])
  /\ UNCHANGED <<now, rsvps, nextRsvpId, pc, req, loc, res, pre>>

\* --------------------------------------------------- POST /api/rsvp/:event_id
Response(code, body) == [status |-> code, body |-> body]

ErrRequired == [error |-> "Campos obrigatorios: name, phone, status, total_people, children"]
ErrStatus == [error |-> "status invalido"]
ErrHeadcount == [error |-> "Valores invalidos de pessoas/criancas"]
ErrNotFound == [error |-> "Evento nao encontrado"]
ErrClosed == [error |-> "RSVP encerrado para este evento"]
ErrSave == [error |-> "Erro ao salvar RSVP"]
ErrKpi == [error |-> "Erro ao calcular KPIs"]

\* honeypot && honeypot.trim() !== ''   (honeypot defaults to '')
HoneypotThrows(b) == ThrowsTypeError(b.honeypot)

\* a handler without the trap
HoneypotTrapped_Never(b) == FALSE

HoneypotTrapped(b) == Truthy(b.honeypot) /\ Trim(b.honeypot.s) # <<>>

MissingRequired(b) ==
  \/ ~Truthy(b.name) \/ ~Truthy(b.phone) \/ b.status = ""
  \/ b.total_people.t # "num" \/ b.children.t # "num"

InvalidStatus(b) == b.status \notin {"going", "maybe", "not_going"}

\* a check that forgets children > total_people
InvalidHeadcount_NoUpperBound(b) ==
  \/ b.total_people.n < 1
  \/ b.children.n < 0

InvalidHeadcount(b) ==
  \/ b.total_people.n < 1
  \/ b.children.n < 0
  \/ b.children.n > b.total_people.n

\* the handler from its first line to its first query: the response it sends
\* at once, or None when it goes on to the event lookup
SubmitEarly(b) ==
  IF HoneypotThrows(b) THEN Response(500, ErrSave)
  ELSE IF HoneypotTrapped(b) THEN Response(200, [ok |-> TRUE])
  ELSE IF MissingRequired(b) THEN Response(400, ErrRequired)
  ELSE IF InvalidStatus(b) THEN Response(400, ErrStatus)
  ELSE IF InvalidHeadcount(b) THEN Response(400, ErrHeadcount)
  ELSE IF ThrowsTypeError(b.name) \/ ThrowsTypeError(b.phone)
       THEN Response(500, ErrSave)
  ELSE None

\* inserts still to come from handlers that passed the checks
Pending == Cardinality({h \in Submitters : pc[h] \in {"evq", "delete", "insert"}})

SubmitBegin(h, r) ==
  /\ h \in Submitters
  /\ pc[h] = "idle"
  /\ req' = [req EXCEPT ![h] = r]
  /\ pre' = [pre EXCEPT ![h] = rsvps]
  /\ LET early == SubmitEarly(r.body)
     IN  IF early # None
         THEN /\ res' = [res EXCEPT ![h] = early]
              /\ pc' = [pc EXCEPT ![h] = "done"]
              /\ loc' = loc
         ELSE /\ loc' = [loc EXCEPT ![h] =
                   [name_norm |-> normalizeName(r.body.name),
                    phone_digits |-> onlyDigits(r.body.phone)]]
              /\ pc' = [pc EXCEPT ![h] = "evq"]
              /\ res' = res
  /\ UNCHANGED <<now, events, rsvps, nextRsvpId>>

\* a pool.query that rejects: the catch block answers 500
QueryFails(h, err) ==
  /\ res' = [res EXCEPT ![h] = Response(500, err)]
  /\ pc' = [pc EXCEPT ![h] = "done"]
  /\ UNCHANGED <<now, events, rsvps, nextRsvpId, req, loc, pre>>

\* a lookup without its WHERE clause: every event is a row of the result
EventRows_NoWhere(id) == {events[i] : i \in 1..Len(events)}

\* SELECT ... FROM events WHERE id = $1
EventRows(id) == {events[i] : i \in {j \in 1..Len(events) : j = id}}

\* a gate that closes at the deadline instant itself
DeadlinePassed_AtDeadline(t, deadline) == t >= deadline

\* now > deadline
DeadlinePassed(t, deadline) == t > deadline

\* a closed gate that answers 403 and, for want of a return, goes on to the
\* DELETE
AfterGate_NoReturn(closed) == "delete"

\* return res.status(403).json(...) ends the handler; otherwise the DELETE
\* is next
AfterGate(closed) == IF closed THEN "done" ELSE "delete"

\* the event lookup, then the deadline check on its row
SubmitEvq(h) ==
  /\ h \in Submitters
  /\ pc[h] = "evq"
  /\ LET rows == EventRows(req[h].event_id)
     IN  IF rows = {}
         THEN /\ res' = [res EXCEPT ![h] = Response(404, ErrNotFound)]
              /\ pc' = [pc EXCEPT ![h] = "done"]
              /\ loc' = loc
         ELSE LET ev == CHOOSE e \in rows : TRUE
              IN  /\ loc' = [loc EXCEPT ![h] =
                       [name_norm |-> loc[h].name_norm,
                        phone_digits |-> loc[h].phone_digits,
                        ev |-> ev,
                        now |-> now]]
                  /\ LET closed == DeadlinePassed(now, ev.rsvp_deadline)
                     IN  /\ res' = IF closed
                                   THEN [res EXCEPT
                                           ![h] = Response(403, ErrClosed)]
                                   ELSE res
                         /\ pc' = [pc EXCEPT ![h] = AfterGate(closed)]
  /\ UNCHANGED <<now, events, rsvps, nextRsvpId, req, pre>>

\* a DELETE that compares the raw name with the normalized one
DeleteMatches_RawName(table, event_id, name_norm, phone) ==
  {x \in table :
     x.event_id = event_id /\ x.name_raw = name_norm /\ x.phone = phone}

\* a DELETE without its event_id condition
DeleteMatches_AnyEvent(table, event_id, name_norm, phone) ==
  {x \in table : x.name_norm = name_norm /\ x.phone = phone}

\* the rows DELETE FROM rsvps WHERE event_id = $1 AND name_norm = $2 AND
\* phone = $3 removes
DeleteMatches(table, event_id, name_norm, phone) ==
  {x \in table :
     x.event_id = event_id /\ x.name_norm = name_norm /\ x.phone = phone}

SubmitDelete(h) ==
  /\ h \in Submitters
  /\ pc[h] = "delete"
  /\ rsvps' = rsvps \ DeleteMatches(rsvps, req[h].event_id,
                                    loc[h].name_norm, loc[h].phone_digits)
  /\ pc' = [pc EXCEPT ![h] = "insert"]
  /\ UNCHANGED <<now, events, nextRsvpId, req, loc, res, pre>>

\* the row INSERT INTO rsvps adds
InsertedRow(id, event_id, b, name_norm, phone) ==
  [id |-> id,
   event_id |-> event_id,
   name_raw |-> b.name.s,
   name_norm |-> name_norm,
   phone |-> phone,
   status |-> b.status,
   total_people |-> b.total_people.n,
   children |-> b.children.n]

\* RETURNING (total_people - children) AS adults
ReturningAdults(row) == row.total_people - row.children

\* edit_until: the event's start at -03:00, less 24 h
EditUntil(ev) ==
  LET eventISO == toISOWithTZ(ev.date, ev.time)
  IN  IF eventISO = Null THEN 0 - DayMs ELSE DateParse(eventISO) - DayMs

SubmitInsert(h) ==
  /\ h \in Submitters
  /\ pc[h] = "insert"
  /\ LET row == InsertedRow(nextRsvpId, req[h].event_id, req[h].body,
                            loc[h].name_norm, loc[h].phone_digits)
     IN  /\ rsvps' = rsvps \cup {row}
         /\ res' = [res EXCEPT ![h] = Response(200,
              [rsvp_id |-> row.id,
               status |-> req[h].body.status,
               adults |-> ReturningAdults(row),
               edit_until |-> EditUntil(loc[h].ev)])]
  /\ nextRsvpId' = nextRsvpId + 1
  /\ pc' = [pc EXCEPT ![h] = "done"]
  /\ UNCHANGED <<now, events, req, loc, pre>>

\* the store is unavailable for the query the handler awaits
SubmitQueryFails(h) ==
  /\ h \in Submitters
  /\ pc[h] \in {"evq", "delete", "insert"}
  /\ QueryFails(h, ErrSave)

\* the response is out; the instance is free for the next request
Return(h) ==
  /\ pc[h] = "done"
  /\ pc' = [pc EXCEPT ![h] = "idle"]
  /\ req' = [req EXCEPT ![h] = None]
  /\ loc' = [loc EXCEPT ![h] = None]
  /\ res' = [res EXCEPT ![h] = None]
  /\ pre' = [pre EXCEPT ![h] = {}]
  /\ UNCHANGED <<now, events, rsvps, nextRsvpId>>

\* --------------------------------------------------- GET /api/events/:id/summary
\* SQL aggregates: SUM and COUNT over a set of rows, each row's term given by
\* the function f.  SUM over no rows is NULL, COUNT(*) is 0.
RECURSIVE Total(_, _)
Total(f, rows) ==
  IF rows = {} THEN 0
  ELSE LET x == CHOOSE y \in rows : TRUE
       IN  f[x] + Total(f, rows \ {x})

SqlSum(f, rows) == IF rows = {} THEN Null ELSE Num(Total(f, rows))
SqlCount(rows) == Num(Cardinality(rows))
\* a sum that is not wrapped in COALESCE
Coalesce_Skipped(v, d) == v

\* COALESCE(v, d)
Coalesce(v, d) == IF v = Null THEN d ELSE v

\* (status = s)::int
StatusIs(rows, s) == [x \in rows |-> IF x.status = s THEN 1 ELSE 0]

\* SELECT COUNT(*), SUM((status='going')::int), ... WHERE event_id = $1
StatusAgg(table, id) ==
  LET rows == {x \in table : x.event_id = id}
  IN  [all |-> SqlCount(rows),
       going |-> SqlSum(StatusIs(rows, "going"), rows),
       maybe |-> SqlSum(StatusIs(rows, "maybe"), rows),
       not_going |-> SqlSum(StatusIs(rows, "not_going"), rows)]

\* a summary that counts maybe whatever the toggle
BaseStatuses_Always(includeMaybe) == {"going", "maybe"}

\* includeMaybe ? ['going','maybe'] : ['going']
BaseStatuses(includeMaybe) ==
  IF includeMaybe THEN {"going", "maybe"} ELSE {"going"}

\* SELECT COALESCE(SUM(total_people - children),0), COALESCE(SUM(children),0)
\* WHERE event_id = $1 AND status = ANY($2)
AdultsChildren(table, id, baseStatuses) ==
  LET rows == {x \in table : x.event_id = id /\ x.status \in baseStatuses}
  IN  [adults |->
         Coalesce(SqlSum([x \in rows |-> x.total_people - x.children], rows),
                  Num(0)),
       children |->
         Coalesce(SqlSum([x \in rows |-> x.children], rows), Num(0))]

SummaryBegin(h, id) ==
  /\ h \in Summarizers
  /\ pc[h] = "idle"
  /\ req' = [req EXCEPT ![h] = [id |-> id]]
  /\ pre' = [pre EXCEPT ![h] = rsvps]
  /\ pc' = [pc EXCEPT ![h] = "evq"]
  /\ UNCHANGED <<now, events, rsvps, nextRsvpId, loc, res>>

SummaryEvq(h) ==
  /\ h \in Summarizers
  /\ pc[h] = "evq"
  /\ LET rows == EventRows(req[h].id)
     IN  IF rows = {}
         THEN /\ res' = [res EXCEPT ![h] = Response(404, ErrNotFound)]
              /\ pc' = [pc EXCEPT ![h] = "done"]
              /\ loc' = loc
         ELSE /\ loc' = [loc EXCEPT ![h] =
                   [includeMaybe |->
                      (CHOOSE e \in rows : TRUE).include_maybe_in_counts]]
              /\ pc' = [pc EXCEPT ![h] = "statusAgg"]
              /\ res' = res
  /\ UNCHANGED <<now, events, rsvps, nextRsvpId, req, pre>>

SummaryStatusAgg(h) ==
  /\ h \in Summarizers
  /\ pc[h] = "statusAgg"
  /\ loc' = [loc EXCEPT ![h] =
       [includeMaybe |-> loc[h].includeMaybe,
        statusAgg |-> StatusAgg(rsvps, req[h].id)]]
  /\ pc' = [pc EXCEPT ![h] = "adultsChildren"]
  /\ UNCHANGED <<now, events, rsvps, nextRsvpId, req, res, pre>>

\* { ...statusAgg.rows[0], ...adultsChildren.rows[0], include_maybe_in_counts }
Totals(statusAgg, adultsChildren, includeMaybe) ==
  [all |-> statusAgg.all,
   going |-> statusAgg.going,
   maybe |-> statusAgg.maybe,
   not_going |-> statusAgg.not_going,
   adults |-> adultsChildren.adults,
   children |-> adultsChildren.children,
   include_maybe_in_counts |-> includeMaybe]

SummaryAdultsChildren(h) ==
  /\ h \in Summarizers
  /\ pc[h] = "adultsChildren"
  /\ res' = [res EXCEPT ![h] = Response(200,
       [totals |-> Totals(loc[h].statusAgg,
                          AdultsChildren(rsvps, req[h].id,
                                         BaseStatuses(loc[h].includeMaybe)),
                          loc[h].includeMaybe)])]
  /\ pc' = [pc EXCEPT ![h] = "done"]
  /\ UNCHANGED <<now, events, rsvps, nextRsvpId, req, loc, pre>>

SummaryQueryFails(h) ==
  /\ h \in Summarizers
  /\ pc[h] \in {"evq", "statusAgg", "adultsChildren"}
  /\ QueryFails(h, ErrKpi)

\* ------------------------------------- POST /api/events and its response
ErrEventRequired == [error |-> "Campos obrigatorios: title, host_name, date, time, location"]
ErrEventFormat == [error |-> "Formato invalido de data/horario do evento"]
ErrCreate == [error |-> "Erro ao criar evento"]

\* The handler of POST /api/events, from the request to its response: the
\* two 400s, then the INSERT of the event with the deadline it resolved; an
\* INSERT the store refuses is caught and answered 500.  Of the 200 body
\* only event_id and rsvp_deadline_iso are kept.  tzMin is the local UTC
\* offset, in minutes, of the server process.
PostEvents(h, body, tzMin) ==
  /\ h \in Creators
  /\ pc[h] = "idle"
  /\ req' = [req EXCEPT ![h] = [body |-> body]]
  /\ loc' = [loc EXCEPT ![h] = [tz |-> tzMin]]
  /\ pre' = [pre EXCEPT ![h] = {events[i] : i \in 1..Len(events)}]
  /\ pc' = [pc EXCEPT ![h] = "done"]
  /\ IF \/ ~Truthy(body.title) \/ ~Truthy(body.host_name)
        \/ ~Truthy(body.date) \/ ~Truthy(body.time) \/ ~Truthy(body.location)
     THEN /\ res' = [res EXCEPT ![h] = Response(400, ErrEventRequired)]
          /\ events' = events
     ELSE IF toISOWithTZ(body.date, body.time) = Null
     THEN /\ res' = [res EXCEPT ![h] = Response(400, ErrEventFormat)]
          /\ events' = events
     ELSE LET dl == finalDeadlineISO(body, tzMin)
          IN  IF StoreTakesTimestamp(dl)
              THEN /\ events' = Append(events,
                        [id |-> Len(events) + 1,
                         date |-> body.date,
                         time |-> body.time,
                         rsvp_deadline |-> DateParse(dl),
                         include_maybe_in_counts |->
                           Truthy(body.include_maybe_in_counts)])
                   /\ res' = [res EXCEPT ![h] = Response(200,
                        [event_id |-> Len(events) + 1,
                         rsvp_deadline_iso |-> dl])]
              ELSE /\ res' = [res EXCEPT ![h] = Response(500, ErrCreate)]
                   /\ events' = events
  /\ UNCHANGED <<now, rsvps, nextRsvpId>>

\* ------------------------------------------------------------ request inputs
Text == Str(<<"x">>)

EventBody(deadline_date, deadline_time, legacy, maybe) ==
  [title |-> Text, host_name |-> Text, location |-> Text,
   date |-> Ymd(3), time |-> Hm(0),
   rsvp_deadline_date |-> deadline_date,
   rsvp_deadline_time |-> deadline_time,
   rsvp_deadline |-> legacy,
   include_maybe_in_counts |-> maybe]

\* local zones of the server process: America/Sao_Paulo and UTC
ServerZones == {TzOffsetMin, 0}

\* events whose deadline is given (day 2, 00:00 at -03:00), with the toggle
\* on or off
EventBodies == {EventBody(Ymd(2), Hm(0), Absent, Bool(m)) : m \in BOOLEAN}

Deadline1 == DateParse(Iso(2, 0, TzOffsetMin))
\* the deadline instant and the millisecond after it
ClockPoints == {Deadline1, Deadline1 + 1}

RsvpBody(name, phone, status, total_people, children, honeypot) ==
  [name |-> name, phone |-> phone, status |-> status,
   total_people |-> total_people, children |-> children,
   honeypot |-> honeypot]

Request(event_id, body) == [event_id |-> event_id, body |-> body]

\* ------------------------------------------------- the concurrent system
\* Two submit handlers and a summary handler interleave their queries.  The
\* requests are for one guest of event 1, with two different payloads.
Requests ==
  {Request(1, RsvpBody(Str(<<"A">>), Str(<<"1">>), p[1], Num(p[2]), Num(p[3]),
                       Absent)) :
     p \in {<<"going", 2, 1>>, <<"maybe", 1, 0>>}}

\* the summary handler that runs beside the two submit handlers
RaceSummarizers == {3}

Next ==
  \/ /\ Len(events) < RaceEvents
     /\ \E b \in EventBodies, tz \in ServerZones : CreateEvent(b, tz)
  \/ Tick(Deadline1 + 1)
  \/ /\ nextRsvpId + Pending <= RaceRsvps
     /\ \E h \in Submitters, r \in Requests : SubmitBegin(h, r)
  \/ \E h \in Submitters : SubmitEvq(h)
  \/ \E h \in Submitters : SubmitDelete(h)
  \/ \E h \in Submitters : SubmitInsert(h)
  \/ \E h \in Submitters : SubmitQueryFails(h)
  \/ \E h \in RaceSummarizers : SummaryBegin(h, 1)
  \/ \E h \in RaceSummarizers : SummaryEvq(h)
  \/ \E h \in RaceSummarizers : SummaryStatusAgg(h)
  \/ \E h \in RaceSummarizers : SummaryAdultsChildren(h)
  \/ \E h \in RaceSummarizers : SummaryQueryFails(h)
  \/ \E h \in Handlers : Return(h)

Spec == Init /\ [][Next]_vars

\* ------------------------------------------------- a summary beside submits
\* One submit handler, called again and again for the guest of event 1, and
\* the summary handler of event 1: the steps of a submit fall before,
\* between and after the two aggregate queries of a summary.
NextRace ==
  \/ /\ Len(events) < RaceEvents
     /\ \E b \in EventBodies, tz \in ServerZones : CreateEvent(b, tz)
  \/ /\ nextRsvpId + Pending <= RaceRsvps
     /\ \E r \in Requests : SubmitBegin(1, r)
  \/ SubmitEvq(1)
  \/ SubmitDelete(1)
  \/ SubmitInsert(1)
  \/ SummaryBegin(3, 1)
  \/ SummaryEvq(3)
  \/ SummaryStatusAgg(3)
  \/ SummaryAdultsChildren(3)
  \/ \E h \in {1, 3} : Return(h)

SpecRace == Init /\ [][NextRace]_vars

\* ------------------------------------------------- the sequential system
\* Calls that do not overlap: a request arrives only when no handler is
\* running.  Guests "A" / "a " (one identity) and "b", phones "1" and "2",
\* either event, two payloads, with and without the trap field filled.
AllIdle == \A h \in Handlers : pc[h] = "idle"

SeqRequests ==
  {Request(e, RsvpBody(n, ph, p[1], Num(p[2]), Num(p[3]), hp)) :
     e \in 1..MaxEvents,
     n \in {Str(<<"A">>), Str(<<"a", " ">>), Str(<<"b">>)},
     ph \in {Str(<<"1">>), Str(<<"2">>)},
     p \in {<<"going", 2, 1>>, <<"maybe", 1, 0>>},
     hp \in {Absent, Str(<<"x">>)}}

SeqEventBodies == {EventBody(Ymd(2), Hm(0), Absent, Absent)}

NextSeq ==
  \/ /\ Len(events) < MaxEvents
     /\ \E b \in SeqEventBodies, tz \in ServerZones : CreateEvent(b, tz)
  \/ \E t \in ClockPoints : Tick(t)
  \/ /\ AllIdle /\ nextRsvpId <= MaxRsvps
     /\ \E r \in SeqRequests : SubmitBegin(1, r)
  \/ SubmitEvq(1)
  \/ SubmitDelete(1)
  \/ SubmitInsert(1)
  \/ SubmitQueryFails(1)
  \/ Return(1)

SpecSeq == Init /\ [][NextSeq]_vars

\* ------------------------------------------------- the checks of a submit
\* One submit handler and every combination of a present, absent, malformed
\* or out-of-range value of each body field, for an event that exists
\* (once created) and one that never does.
CheckRequests ==
  {Request(e, RsvpBody(n, ph, st, tp, ch, hp)) :
     e \in {1, MaxEvents + 1},
     n \in {Absent, Other, Str(<<"A">>)},
     ph \in {Absent, Other, Str(<<"1">>)},
     st \in {"", "other", "going"},
     tp \in {Absent, Num(0), Num(1), Num(2)},
     ch \in {Str(<<"2">>), Num(0 - 1), Num(0), Num(1), Num(2)},
     hp \in {Absent, Str(<<" ">>), Str(<<"x">>), Other}}

NextCheck ==
  \/ /\ Len(events) < MaxEvents
     /\ \E b \in SeqEventBodies, tz \in ServerZones : CreateEvent(b, tz)
  \/ \E t \in ClockPoints : Tick(t)
  \/ /\ AllIdle /\ nextRsvpId <= MaxRsvps
     /\ \E r \in CheckRequests : SubmitBegin(1, r)
  \/ SubmitEvq(1)
  \/ SubmitDelete(1)
  \/ SubmitInsert(1)
  \/ SubmitQueryFails(1)
  \/ Return(1)

SpecCheck == Init /\ [][NextCheck]_vars

\* ------------------------------------------------- summaries of a table
\* The summary handler run over tables of up to MaxSumRows rows, each row of
\* its own guest, of either of two events, one with the toggle off and one
\* with it on or off.
SumEvent(id, maybe) ==
  [id |-> id, date |-> Ymd(3), time |-> Hm(0), rsvp_deadline |-> Deadline1,
   include_maybe_in_counts |-> maybe]

SumRow(i, c) ==
  [id |-> i, event_id |-> c[1], name_raw |-> <<"A">>, name_norm |-> <<"a">>,
   phone |-> [j \in 1..i |-> "1"], status |-> c[2],
   total_people |-> c[3], children |-> c[4]]

SumRowContents ==
  {<<e, st, hc[1], hc[2]>> :
     e \in {1, 2}, st \in {"going", "maybe", "not_going"},
     hc \in {<<2, 1>>, <<1, 0>>}}

SumTables ==
  UNION {{{SumRow(i, cs[i]) : i \in 1..k} : cs \in [1..k -> SumRowContents]} :
           k \in 0..MaxSumRows}

InitSum ==
  /\ now = 0
  /\ events \in {<<SumEvent(1, m1), SumEvent(2, m2)>> : m1, m2 \in BOOLEAN}
  /\ rsvps \in SumTables
  /\ nextRsvpId = Cardinality(rsvps) + 1
  /\ pc = [h \in Handlers |-> "idle"]
  /\ req = [h \in Handlers |-> None]
  /\ loc = [h \in Handlers |-> None]
  /\ res = [h \in Handlers |-> None]
  /\ pre = [h \in Handlers |-> {}]

\* A summary of event 1, of event 2 or of an event that does not exist; once
\* it has answered, a second call asks for the same event.
NextSum ==
  \/ AllIdle /\ \E id \in 1..3 : SummaryBegin(3, id)
  \/ /\ pc[3] = "done" /\ res[3].status # 500
     /\ SummaryBegin(4, req[3].id)
  \/ \E h \in Summarizers : SummaryEvq(h)
  \/ \E h \in Summarizers : SummaryStatusAgg(h)
  \/ \E h \in Summarizers : SummaryAdultsChildren(h)
  \/ \E h \in Summarizers : SummaryQueryFails(h)
  \/ pc[4] = "idle" /\ Return(3)
  \/ Return(4)

SpecSum == InitSum /\ [][NextSum]_vars

\* ------------------------------------------------- spellings of a guest
\* One submit, to an empty table, of every name of up to MaxNameLen
\* characters (letters in both cases, precomposed and combining accents,
\* spaces and tabs) and of every phone of up to MaxPhoneLen characters.
NameChars == {"a", "A", "a_acute", "u0301", " ", "\t", "b"}
PhoneChars == {"1", "2", "-"}

Names == UNION {[1..k -> NameChars] : k \in 0..MaxNameLen}
Phones == UNION {[1..k -> PhoneChars] : k \in 0..MaxPhoneLen}

NormRequest(n, ph) ==
  Request(1, RsvpBody(Str(n), Str(ph), "going", Num(1), Num(0), Absent))

NormRequests ==
  {NormRequest(n, <<"1">>) : n \in Names}
    \cup {NormRequest(<<"A">>, ph) : ph \in Phones}

NextNorm ==
  \/ /\ events = <<>>
     /\ \E b \in SeqEventBodies, tz \in ServerZones : CreateEvent(b, tz)
  \/ /\ AllIdle /\ rsvps = {}
     /\ \E r \in NormRequests : SubmitBegin(1, r)
  \/ SubmitEvq(1)
  \/ SubmitDelete(1)
  \/ SubmitInsert(1)
  \/ Return(1)

SpecNorm == Init /\ [][NextNorm]_vars

\* ------------------------------------------------- creating events
\* POST /api/events with each deadline input absent, malformed or
\* well-formed, a title present or missing, an event date well-formed or
\* not, on a server in either zone.
Malformed == Str(<<"x">>)

CreateBodies ==
  {[title |-> ti, host_name |-> Text, location |-> Text,
    date |-> da, time |-> Hm(0),
    rsvp_deadline_date |-> dd,
    rsvp_deadline_time |-> dt,
    rsvp_deadline |-> legacy,
    include_maybe_in_counts |-> maybe] :
     ti \in {Absent, Text},
     da \in {Malformed, Ymd(3)},
     dd \in {Absent, Malformed, Ymd(1)},
     dt \in {Absent, Malformed, Hm(0)},
     legacy \in {Absent, Malformed, Iso(2, 0, 0)},
     maybe \in {Absent, Bool(TRUE)}}

NextCreate ==
  \/ /\ Len(events) < MaxEvents
     /\ \E b \in CreateBodies, tz \in ServerZones : PostEvents(5, b, tz)
  \/ Return(5)

SpecCreate == Init /\ [][NextCreate]_vars

\* ===================================================================
\* Properties
\* ===================================================================
\* the identity key of a stored row, and of a request
Key(x) == <<x.event_id, x.name_norm, x.phone>>
KeyOf(r) == <<r.event_id, normalizeName(r.body.name), onlyDigits(r.body.phone)>>

\* the handler answered 200 with the body of a stored RSVP
RealSuccess(h) ==
  /\ pc[h] = "done"
  /\ res[h].status = 200
  /\ "rsvp_id" \in DOMAIN res[h].body

\* a row carries the status and headcounts of a request
Carries(x, r) ==
  /\ x.status = r.body.status
  /\ x.total_people = r.body.total_people.n
  /\ x.children = r.body.children.n

\* C1: with calls that do not overlap, the table holds at most one row per
\* identity key, and after a successful submit the one row of its key carries
\* the status, total_people and children of that submit.
C1_SequentialReplacement ==
  /\ \A x, y \in rsvps : Key(x) = Key(y) => x = y
  /\ \A h \in Submitters :
       RealSuccess(h) =>
         LET mine == {x \in rsvps : Key(x) = KeyOf(req[h])}
         IN  /\ Cardinality(mine) = 1
             /\ \A x \in mine : Carries(x, req[h])

\* a successful submit has replaced a row of its key that carried another
\* status and other headcounts
C1_Witness ==
  /\ RealSuccess(1)
  /\ \E x \in pre[1] :
       /\ Key(x) = KeyOf(req[1])
       /\ x.status # req[1].body.status
       /\ x.total_people # req[1].body.total_people.n
       /\ x \notin rsvps

\* C2: when two submits for one identity have both completed, whatever the
\* order of their queries, exactly one row of that identity exists and it
\* carries the payload of one of the two.
C2_ConcurrentReplacement ==
  \A h1, h2 \in Submitters :
    (h1 # h2 /\ RealSuccess(h1) /\ RealSuccess(h2)
       /\ KeyOf(req[h1]) = KeyOf(req[h2])) =>
      LET mine == {x \in rsvps : Key(x) = KeyOf(req[h1])}
      IN  /\ Cardinality(mine) = 1
          /\ \A x \in mine : Carries(x, req[h1]) \/ Carries(x, req[h2])

\* C3: a submit that ends in the internal-failure outcome leaves the table
\* as it was when the request arrived.
C3_FailureAtomicity ==
  \A h \in Submitters :
    (pc[h] = "done" /\ res[h].status = 500) => rsvps = pre[h]

\* the handler found the event of its request
FoundEvent(h) == "ev" \in DOMAIN loc[h]

\* C4: a submit that passed the checks and found its event is rejected as
\* closed exactly when its now is after the event's stored deadline; the
\* rejection leaves the table unchanged, and otherwise the handler goes on to
\* the replacement.
C4_DeadlineGate ==
  \A h \in Submitters :
    FoundEvent(h) =>
      /\ (pc[h] = "done" /\ res[h] = Response(403, ErrClosed))
           <=> (loc[h].now > loc[h].ev.rsvp_deadline)
      /\ (loc[h].now > loc[h].ev.rsvp_deadline) => rsvps = pre[h]
      /\ (loc[h].now <= loc[h].ev.rsvp_deadline) =>
           (pc[h] \in {"delete", "insert"} \/ RealSuccess(h)
              \/ (pc[h] = "done" /\ res[h].status = 500))

\* a submit accepted at the deadline instant itself
C4_Witness ==
  /\ RealSuccess(1)
  /\ loc[1].now = loc[1].ev.rsvp_deadline

\* the trap field of a request is a string that is not empty after trimming
Trapped(r) == r.body.honeypot.t = "str" /\ Trim(r.body.honeypot.s) # <<>>

\* the handler got as far as its first query
ReachedLookup(h) == "name_norm" \in DOMAIN loc[h]

\* C5: the outcome of a submit is that of the first failing check, in the
\* order trap, required fields, status, headcounts, event exists, deadline;
\* a submit that passes them all is accepted (and may still meet a store
\* failure once it has reached its queries).
C5_ValidationOrder ==
  \A h \in Submitters :
    pc[h] = "done" =>
      LET b == req[h].body
      IN  IF Trapped(req[h]) THEN res[h].status = 200
          ELSE IF \/ ~Truthy(b.name) \/ ~Truthy(b.phone) \/ b.status = ""
                  \/ b.total_people.t # "num" \/ b.children.t # "num"
               THEN res[h] = Response(400, ErrRequired)
          ELSE IF b.status \notin {"going", "maybe", "not_going"}
               THEN res[h] = Response(400, ErrStatus)
          ELSE IF \/ b.total_people.n < 1 \/ b.children.n < 0
                  \/ b.children.n > b.total_people.n
               THEN res[h] = Response(400, ErrHeadcount)
          ELSE /\ ReachedLookup(h)
               /\ IF ~FoundEvent(h) THEN res[h].status \in {404, 500}
                  ELSE IF loc[h].now > loc[h].ev.rsvp_deadline
                       THEN res[h] = Response(403, ErrClosed)
                  ELSE res[h].status \in {200, 500}

\* name, phone and the trap field are strings or absent
TextFields(r) ==
  \A v \in {r.body.name, r.body.phone, r.body.honeypot} :
    v.t \in {"str", "absent"}

\* C5, for requests whose name, phone and trap field are strings or absent:
\* the order of the checks decides the outcome.
C5_OrderForTextFields ==
  \A h \in Submitters :
    (pc[h] = "done" /\ TextFields(req[h])) =>
      LET b == req[h].body
      IN  IF Trapped(req[h]) THEN res[h].status = 200
          ELSE IF \/ ~Truthy(b.name) \/ ~Truthy(b.phone) \/ b.status = ""
                  \/ b.total_people.t # "num" \/ b.children.t # "num"
               THEN res[h] = Response(400, ErrRequired)
          ELSE IF b.status \notin {"going", "maybe", "not_going"}
               THEN res[h] = Response(400, ErrStatus)
          ELSE IF \/ b.total_people.n < 1 \/ b.children.n < 0
                  \/ b.children.n > b.total_people.n
               THEN res[h] = Response(400, ErrHeadcount)
          ELSE /\ ReachedLookup(h)
               /\ IF ~FoundEvent(h) THEN res[h].status \in {404, 500}
                  ELSE IF loc[h].now > loc[h].ev.rsvp_deadline
                       THEN res[h] = Response(403, ErrClosed)
                  ELSE res[h].status \in {200, 500}

\* C6: a submit whose trap field is not empty after trimming answers success
\* without ever issuing a query: the table is as it was when the request
\* arrived, nothing deleted and nothing inserted.
C6_HoneypotNoOp ==
  \A h \in Submitters :
    (pc[h] # "idle" /\ Trapped(req[h])) =>
      /\ pc[h] = "done"
      /\ res[h].status = 200
      /\ loc[h] = None
      /\ rsvps = pre[h]

\* a trapped submit for an identity that has a row in the table
C6_Witness ==
  /\ pc[1] = "done"
  /\ Trapped(req[1])
  /\ \E x \in rsvps : Key(x) = KeyOf(req[1])

\* C7: the response to a trapped submit has the outcome and the fields of
\* the response to a real successful submit of the same body: id, status,
\* adults, edit_until.
C7_HoneypotIndistinguishable ==
  \A h \in Submitters :
    (pc[h] = "done" /\ Trapped(req[h])) =>
      /\ res[h].status = 200
      /\ DOMAIN res[h].body = {"rsvp_id", "status", "adults", "edit_until"}
      /\ res[h].body.status = req[h].body.status

\* C8: every stored row has total_people >= 1 and 0 <= children <=
\* total_people, and every successful submit answers the submitted status and
\* adults = total_people - children >= 0.
C8_HeadcountInvariant ==
  /\ \A x \in rsvps :
       x.total_people >= 1 /\ 0 <= x.children /\ x.children <= x.total_people
  /\ \A h \in Submitters :
       RealSuccess(h) =>
         /\ res[h].body.adults =
              req[h].body.total_people.n - req[h].body.children.n
         /\ res[h].body.adults >= 0
         /\ res[h].body.status = req[h].body.status

\* a successful submit of a party that is all children (adults = 0)
C8_Witness ==
  /\ RealSuccess(1)
  /\ req[1].body.children.n = 2
  /\ res[1].body.adults = 0

\* the headcounts the claim lets a row contribute: the row is of event e and
\* going, or maybe with the event's toggle on
Counted(x, e) ==
  /\ x.event_id = e
  /\ \/ x.status = "going"
     \/ x.status = "maybe" /\ events[e].include_maybe_in_counts

\* the sum, over the rows with ids 1..n that count, of adults or of children
RECURSIVE HeadSum(_, _, _)
HeadSum(n, e, what) ==
  IF n = 0 THEN 0
  ELSE LET rows == {x \in rsvps : x.id = n /\ Counted(x, e)}
           term == IF rows = {} THEN 0
                   ELSE LET x == CHOOSE y \in rows : TRUE
                        IN  IF what = "adults"
                            THEN x.total_people - x.children
                            ELSE x.children
       IN  term + HeadSum(n - 1, e, what)

\* C9: the summary of an event returns as adults the sum of total_people -
\* children, and as children the sum of children, over that event's rows
\* that are going, or maybe when the toggle is on; not_going rows and rows of
\* other events add nothing.
C9_AggregationToggle ==
  \A h \in Summarizers :
    (pc[h] = "done" /\ res[h].status = 200) =>
      /\ res[h].body.totals.adults =
           Num(HeadSum(nextRsvpId - 1, req[h].id, "adults"))
      /\ res[h].body.totals.children =
           Num(HeadSum(nextRsvpId - 1, req[h].id, "children"))

\* a summary, toggle on, of an event with a going, a maybe and a not_going
\* row
C9_Witness ==
  /\ pc[3] = "done"
  /\ res[3].status = 200
  /\ res[3].body.totals.include_maybe_in_counts
  /\ \A st \in {"going", "maybe", "not_going"} :
       \E x \in rsvps : x.event_id = req[3].id /\ x.status = st

\* C10: all, going, maybe and not_going of a summary are the numbers of the
\* event's rows, of any status and of each status, whatever the toggle.
C10_StatusCounts ==
  \A h \in Summarizers :
    (pc[h] = "done" /\ res[h].status = 200) =>
      LET mine == {x \in rsvps : x.event_id = req[h].id}
          count(st) == Num(Cardinality({x \in mine : x.status = st}))
          totals == res[h].body.totals
      IN  /\ totals.all = Num(Cardinality(mine))
          /\ totals.going = count("going")
          /\ totals.maybe = count("maybe")
          /\ totals.not_going = count("not_going")

\* C11: the summary of an existing event that has no row returns all, going,
\* maybe, not_going, adults and children as the number 0, none of them null.
C11_EmptyLedgerSummary ==
  \A h \in Summarizers :
    (/\ pc[h] = "done"
     /\ res[h].status = 200
     /\ \A x \in rsvps : x.event_id # req[h].id) =>
      \A f \in {"all", "going", "maybe", "not_going", "adults", "children"} :
        res[h].body.totals[f] = Num(0)

\* the outcomes of a submit that the program calls a rejection: a validation
\* error, an unknown event, a closed deadline
Rejected(h) == res[h] # None /\ res[h].status \in {400, 404, 403}

\* C12: from the moment a submit has answered with a validation error, with
\* not-found or with deadline-closed, the table holds exactly the rows it
\* held when the request arrived.
C12_RejectedPersistNothing ==
  \A h \in Submitters : Rejected(h) => rsvps = pre[h]

\* a submit was refused after the deadline while the table held a row of its
\* identity with another payload, and that row is still there
C12_Witness ==
  /\ pc[1] = "done"
  /\ res[1].status = 403
  /\ \E x \in rsvps :
       /\ Key(x) = KeyOf(req[1])
       /\ x.total_people # req[1].body.total_people.n

\* a summary call has answered, and not with the internal failure
Answered(h) == pc[h] = "done" /\ res[h].status # 500

\* a step of a summary handler
SummaryStep == \E h \in Summarizers : pc'[h] # pc[h]

\* C13: no step of a summary changes the rows, the events or the id
\* sequence; a summary of an id that is no event answers 404 with no totals
\* and a summary of an event answers 200 with totals; and two summaries of
\* one event with no submit between them answer with the same result.
C13_SummaryReadOnly ==
  /\ [](\A h \in Summarizers :
          Answered(h) =>
            IF req[h].id \in 1..Len(events)
            THEN res[h].status = 200 /\ "totals" \in DOMAIN res[h].body
            ELSE res[h].status = 404 /\ "totals" \notin DOMAIN res[h].body)
  /\ []((Answered(3) /\ Answered(4)) => res[3] = res[4])
  /\ [][SummaryStep =>
          /\ rsvps' = rsvps
          /\ events' = events
          /\ nextRsvpId' = nextRsvpId]_vars

\* a second summary of an event with rows has answered after the first, and
\* so has a second summary of an id that is no event
C13_Witness ==
  /\ Answered(3) /\ Answered(4)
  /\ \/ /\ res[4].status = 200
        /\ \E x \in rsvps : x.event_id = req[4].id
     \/ /\ res[4].status = 404
        /\ rsvps # {}

\* C18: a successful submit removes only rows of its own identity key and
\* adds exactly one row, of that key; every row of another key (the same
\* name with another phone, the same phone with another name, the same name
\* and phone for another event) is in the table after it exactly as before.
C18_ReplacementScoped ==
  \A h \in Submitters :
    RealSuccess(h) =>
      LET k == KeyOf(req[h])
      IN  /\ {x \in rsvps : Key(x) # k} = {x \in pre[h] : Key(x) # k}
          /\ \A x \in pre[h] \ rsvps : Key(x) = k
          /\ Cardinality(rsvps \ pre[h]) = 1
          /\ \A x \in rsvps \ pre[h] : Key(x) = k

\* a successful submit found a row of another key: of its name and phone
\* for another event, of its name with another phone, or of its phone with
\* another name
C18_Witness ==
  /\ RealSuccess(1)
  /\ \E x \in pre[1] :
       LET k == KeyOf(req[1])
       IN  \/ x.event_id # k[1] /\ x.name_norm = k[2] /\ x.phone = k[3]
           \/ x.event_id = k[1] /\ x.name_norm = k[2] /\ x.phone # k[3]
           \/ x.event_id = k[1] /\ x.name_norm # k[2] /\ x.phone = k[3]

\* x with its i-th character replaced by the characters of seq
Replace(x, i, seq) == SubSeq(x, 1, i - 1) \o seq \o SubSeq(x, i + 1, Len(x))

SwapCase(c) ==
  CASE c = "a" -> "A"
    [] c = "A" -> "a"
    [] c = "b" -> "B"
    [] c = "B" -> "b"
    [] c = "a_acute" -> "A_acute"
    [] c = "A_acute" -> "a_acute"
    [] OTHER -> c

\* the other ways to write a character with or without its accent
AccentForms(c) ==
  CASE c = "a" -> {<<"a_acute">>, <<"a", "u0301">>}
    [] c = "A" -> {<<"A_acute">>, <<"A", "u0301">>}
    [] c = "a_acute" -> {<<"a">>, <<"a", "u0301">>}
    [] c = "A_acute" -> {<<"A">>, <<"A", "u0301">>}
    [] c = "b" -> {<<"b", "u0301">>}
    [] c = "u0301" -> {<<>>}
    [] OTHER -> {}

\* the names that differ from x in the case of one letter, in the accent of
\* one letter, in one leading or trailing whitespace character, or in the
\* length of one run of whitespace
NameVariants(x) ==
  LET spaces == {i \in 1..Len(x) : IsSpace(x[i])}
  IN  {Replace(x, i, <<SwapCase(x[i])>>) : i \in 1..Len(x)}
        \cup UNION {{Replace(x, i, f) : f \in AccentForms(x[i])} :
                      i \in 1..Len(x)}
        \cup {<<w>> \o x : w \in {" ", "\t"}}
        \cup {x \o <<w>> : w \in {" ", "\t"}}
        \cup UNION {{Replace(x, i, <<x[i], w>>) : w \in {" ", "\t"}} :
                      i \in spaces}

\* the phones that differ from p in one character that is no digit
PhoneVariants(p) ==
  {SubSeq(p, 1, i) \o <<c>> \o SubSeq(p, i + 1, Len(p)) :
     i \in 0..Len(p), c \in {"-", " ", "(", "+"}}

\* C14: a name that differs from a submitted name only in accents, letter
\* case, leading or trailing whitespace or the length of whitespace runs has
\* the same normalized name, and a phone that differs only in non-digits has
\* the same digits, so that the DELETE of a submit with the other spelling
\* removes the row of the first; normalizeName and onlyDigits give their own
\* results back when applied to them; and both give the empty string for an
\* absent or empty input.
C14_NormalizationEquivalence ==
  /\ \A h \in Submitters :
       ReachedLookup(h) =>
         LET n == req[h].body.name.s
             ph == req[h].body.phone.s
         IN  /\ \A v \in NameVariants(n) :
                  normalizeName(Str(v)) = loc[h].name_norm
             /\ \A w \in PhoneVariants(ph) :
                  onlyDigits(Str(w)) = loc[h].phone_digits
             /\ normalizeName(Str(loc[h].name_norm)) = loc[h].name_norm
             /\ onlyDigits(Str(loc[h].phone_digits)) = loc[h].phone_digits
             /\ RealSuccess(h) =>
                  \A v \in NameVariants(n), w \in PhoneVariants(ph) :
                    \E x \in DeleteMatches(rsvps, req[h].event_id,
                                           normalizeName(Str(v)),
                                           onlyDigits(Str(w))) :
                      x.id = res[h].body.rsvp_id
  /\ \A v \in {Absent, Str(<<>>)} :
       normalizeName(v) = <<>> /\ onlyDigits(v) = <<>>

\* a name of an upper-case letter, a tab and a letter with a precomposed
\* accent was stored as two plain lower-case letters and one space
C14_Witness ==
  /\ RealSuccess(1)
  /\ req[1].body.name.s = <<"A", "\t", "a_acute">>
  /\ \E x \in rsvps : x.name_norm = <<"a", " ", "a">>

\* C19: every stored row has a non-empty normalized name and a non-empty
\* phone, and a submit whose name has only whitespace and combining marks,
\* or whose phone has no digit, ends in a validation error.
C19_NonEmptyKey ==
  /\ \A x \in rsvps : x.name_norm # <<>> /\ x.phone # <<>>
  /\ \A h \in Submitters :
       (/\ pc[h] = "done"
        /\ \/ normalizeName(req[h].body.name) = <<>>
           \/ onlyDigits(req[h].body.phone) = <<>>) =>
         res[h].status = 400

\* POST /api/events answered 200
Created(h) == pc[h] = "done" /\ res[h].status = 200

\* both split deadline fields came with the request
SplitPresent(b) ==
  Truthy(b.rsvp_deadline_date) /\ Truthy(b.rsvp_deadline_time)

\* C15: the deadline of a created event is, when both split fields are
\* present, those fields read at -03:00; otherwise, when the legacy
\* rsvp_deadline is provided, that value; otherwise the fallback.  The value
\* returned as rsvp_deadline_iso is the value stored.
C15_DeadlinePriority ==
  \A h \in Creators :
    Created(h) =>
      LET b == req[h].body
          dl == res[h].body.rsvp_deadline_iso
      IN  /\ events[res[h].body.event_id].rsvp_deadline = DateParse(dl)
          /\ IF SplitPresent(b)
             THEN /\ b.rsvp_deadline_date.t = "ymd"
                  /\ b.rsvp_deadline_time.t = "hm"
                  /\ dl = Iso(b.rsvp_deadline_date.d, b.rsvp_deadline_time.m,
                              TzOffsetMin)
             ELSE Truthy(b.rsvp_deadline) => dl = b.rsvp_deadline

\* the deadline inputs the handler consults cannot be read as a timestamp
Unparseable(b) ==
  IF SplitPresent(b)
  THEN ~(b.rsvp_deadline_date.t = "ymd" /\ b.rsvp_deadline_time.t = "hm")
  ELSE Truthy(b.rsvp_deadline) /\ b.rsvp_deadline.t # "iso"

\* C16: a create-event request whose deadline inputs cannot be parsed is
\* answered with the validation error and stores no event.
C16_UnparseableDeadlineRejected ==
  \A h \in Creators :
    (pc[h] = "done" /\ Unparseable(req[h].body)) =>
      /\ res[h].status = 400
      /\ {events[i] : i \in 1..Len(events)} = pre[h]

\* C17: with no deadline input, the deadline stored is the event's start at
\* -03:00 less 24 hours, the edit_until of a submit for that event, in
\* whatever zone the server runs.
C17_FallbackDeadline ==
  \A h \in Creators :
    (/\ Created(h)
     /\ ~SplitPresent(req[h].body)
     /\ ~Truthy(req[h].body.rsvp_deadline)) =>
      LET ev == events[res[h].body.event_id]
      IN  /\ ev.rsvp_deadline =
               DateParse(toISOWithTZ(ev.date, ev.time)) - DayMs
          /\ ev.rsvp_deadline = EditUntil(ev)

\* a returned count as a number, null read as no rows
NumberOf(v) == IF v = Null THEN 0 ELSE v.n

\* C20, as first stated: every summary is the aggregate of the table at one
\* single instant, so that its adults + children is at least its number of
\* counted responses (going, plus maybe when the toggle is on) and is 0 when
\* that number is 0.
C20_SingleSnapshot ==
  \A h \in Summarizers :
    (pc[h] = "done" /\ res[h].status = 200) =>
      LET t == res[h].body.totals
          counted == NumberOf(t.going)
                       + (IF t.include_maybe_in_counts
                          THEN NumberOf(t.maybe) ELSE 0)
          heads == t.adults.n + t.children.n
      IN  /\ heads >= counted
          /\ counted = 0 => heads = 0

\* the rows of event e in the table, and those of status st
RowsOf(e) == {x \in rsvps : x.event_id = e}
RowsIn(e, st) == {x \in RowsOf(e) : x.status = st}

\* C20, amended: each of the two aggregate queries of a summary reads the
\* table as it is at the instant of that query.  The first gives all as the
\* number of the event's rows and, when the event has a row, going, maybe
\* and not_going as the numbers of its rows of each status; the second gives
\* adults and children as the sums over the rows that count at its own
\* instant; the response joins the two unchanged.
C20_PerQuerySnapshot ==
  [][\A h \in Summarizers :
       /\ (pc[h] = "statusAgg" /\ pc'[h] = "adultsChildren") =>
            LET agg == loc'[h].statusAgg
                e == req[h].id
            IN  /\ agg.all = Num(Cardinality(RowsOf(e)))
                /\ RowsOf(e) # {} =>
                     \A st \in {"going", "maybe", "not_going"} :
                       agg[st] = Num(Cardinality(RowsIn(e, st)))
       /\ (pc[h] = "adultsChildren" /\ pc'[h] = "done"
             /\ res'[h].status = 200) =>
            LET t == res'[h].body.totals
                e == req[h].id
            IN  /\ t.adults = Num(HeadSum(nextRsvpId - 1, e, "adults"))
                /\ t.children = Num(HeadSum(nextRsvpId - 1, e, "children"))
                /\ \A f \in {"all", "going", "maybe", "not_going"} :
                     t[f] = loc[h].statusAgg[f]]_vars

\* a summary whose first query found no row of the event and whose second
\* query, after a submit's INSERT, found heads to count
C20_Witness ==
  /\ pc[3] = "done"
  /\ res[3].status = 200
  /\ res[3].body.totals.all = Num(0)
  /\ res[3].body.totals.adults.n + res[3].body.totals.children.n > 0

====
